---- MODULE Spec2Model ----
(***************************************************************************)
(* Buddhabrot generator (BuddhabrotGenerator/main.cc).                     *)
(*                                                                         *)
(* Doubles are modelled exactly: every double the model meets is a dyadic  *)
(* rational n/d (d a power of two) with far fewer than 53 significant      *)
(* bits, so the IEEE operations of the program (product, sum, difference,  *)
(* comparison) are                                                         *)
(* exact on them and equal the rational operations below.  The two places  *)
(* where the program divides (rowFromReal/colFromImaginary and             *)
(* colorFromHeatmap) are treated where they are defined.                   *)
(***************************************************************************)
EXTENDS Integers, Sequences, FiniteSets, TLC

\* ------------------------------------------------------------------------
\* Bounds of the model
\* ------------------------------------------------------------------------
\* largest iteration bound handed to buddhabrotPoints on its own
MaxIter == 3
\* candidates of the stand-alone trajectory check: (a/2, b/2), |a|,|b| <= HalfRange
HalfRange == 6
\* largest maximum handed to colorFromHeatmap on its own
MaxHeat == 30
\* most points fed to the accumulation step on its own
MaxFed == 3
\* largest iteration bound and sample count of the configurations tried
MaxConfigIters == 3
MaxConfigSamples == 1

\* ------------------------------------------------------------------------
\* double (dyadic rational n/d, normalised)
\* ------------------------------------------------------------------------
RECURSIVE Norm(_, _)
Norm(n, d) ==
    IF d > 1 /\ n % 2 = 0 THEN Norm(n \div 2, d \div 2) ELSE [n |-> n, d |-> d]

Dbl(n, d) == Norm(n, d)

DMaxDen(x, y) == IF x.d >= y.d THEN x.d ELSE y.d

DMul(x, y) == Norm(x.n * y.n, x.d * y.d)

DAdd(x, y) ==
    LET dd == DMaxDen(x, y)
    IN  Norm(x.n * (dd \div x.d) + y.n * (dd \div y.d), dd)

DSub(x, y) ==
    LET dd == DMaxDen(x, y)
    IN  Norm(x.n * (dd \div x.d) - y.n * (dd \div y.d), dd)

DLe(x, y) == x.n * y.d <= y.n * x.d

DGt(x, y) == ~DLe(x, y)

\* ------------------------------------------------------------------------
\* class Complex
\* ------------------------------------------------------------------------
Complex(r, i) == [r |-> r, i |-> i]

\* Complex z;  (default arguments r = 0.0, i = 0.0)
ComplexZero == Complex(Dbl(0, 1), Dbl(0, 1))

\* operator*
CMul(a, b) ==
    Complex(DSub(DMul(a.r, b.r), DMul(a.i, b.i)),
            DAdd(DMul(a.r, b.i), DMul(a.i, b.r)))

\* operator+
CAdd(a, b) == Complex(DAdd(a.r, b.r), DAdd(a.i, b.i))

sqmagnitude(z) == DAdd(DMul(z.r, z.r), DMul(z.i, z.i))

\* the escape threshold 2.0 of the loop test
EscapeThreshold == Dbl(2, 1)

\* ------------------------------------------------------------------------
\* buddhabrotPoints
\* ------------------------------------------------------------------------
\* a slip of the loop test: "<=" for "<" on the iteration counter
LoopCondOffByOne(n, nIterations, z) ==
    n <= nIterations /\ DLe(sqmagnitude(z), EscapeThreshold)

\* while (n < nIterations && z.sqmagnitude() <= 2.0)
LoopCond(n, nIterations, z) ==
    n < nIterations /\ DLe(sqmagnitude(z), EscapeThreshold)

\* the while loop, from the state (n, z, toReturn) to the state at its exit
RECURSIVE buddhabrotLoop(_, _, _, _, _)
buddhabrotLoop(c, nIterations, n, z, toReturn) ==
    IF LoopCond(n, nIterations, z)
    THEN LET znext == CAdd(CMul(z, z), c)
         IN  buddhabrotLoop(c, nIterations, n + 1, znext, Append(toReturn, znext))
    ELSE [n |-> n, z |-> z, toReturn |-> toReturn]

\* toReturn.reserve(nIterations) throws std::length_error for a negative
\* nIterations (converted to a huge size_t)
buddhabrotThrows(nIterations) == nIterations < 0

\* the value returned: empty when n == nIterations, else toReturn
buddhabrotPoints(c, nIterations) ==
    LET f == buddhabrotLoop(c, nIterations, 0, ComplexZero, << >>)
    IN  IF f.n = nIterations THEN << >> ELSE f.toReturn

\* the number of loop iterations performed by the call
buddhabrotIterations(c, nIterations) ==
    buddhabrotLoop(c, nIterations, 0, ComplexZero, << >>).n

\* ------------------------------------------------------------------------
\* main's constants
\* ------------------------------------------------------------------------
MINIMUM == Complex(Dbl(-2, 1), Dbl(-2, 1))
MAXIMUM == Complex(Dbl(1, 1), Dbl(2, 1))
IMAGE_HEIGHT == 7000
IMAGE_WIDTH == 7000
RED_ITERS == 5
\* GREEN_ITERS, BLUE_ITERS and SAMPLE_COUNT are 500, 500000 and
\* IMAGE_WIDTH * IMAGE_HEIGHT * 350 in main; the model runs the same passes
\* with small values
GREEN_ITERS == 3
BLUE_ITERS == 4
SAMPLE_COUNT == 2
\* the maxColor argument of the three colorFromHeatmap calls
MAX_COLOR == 255
EXIT_SUCCESS == 0
EXIT_FAILURE == 1

\* ------------------------------------------------------------------------
\* heatmaps
\* ------------------------------------------------------------------------
\* A heatmap is imageHeight x imageWidth cells.  The model stores the cells
\* that were written (hits, keyed by <<row, col>>) and the value of all the
\* others (fill).  The memory around the arrays is no cell, but the program
\* can reach it with an index one past the end.  A column index one past
\* the end of a row reaches the word behind that row; a row index one past
\* the end of the array of row pointers reads what lies behind that array
\* as a row pointer and reaches the word it leads to.  around says what the
\* allocation left there: mapped, whether the word behind a row can be
\* accessed; pointed, whether the pointer read behind the array of row
\* pointers leads to a word that can be accessed (a null pointer does not);
\* word, the value such words hold until they are written.  slack holds the
\* words the program has written there, keyed by the <<row, col>> used.
NoHits == [c \in {} |-> 0]

\* values the memory around the rows may hold when the heatmap is allocated
StrayValues == {0, 1000}

\* what the allocation can leave around the arrays
Surroundings ==
    { a \in [mapped : BOOLEAN, pointed : BOOLEAN, word : StrayValues] :
         (~a.mapped /\ ~a.pointed) => a.word = 0 }

\* the surroundings of a heatmap that is not in use
NoSurroundings == [mapped |-> FALSE, pointed |-> FALSE, word |-> 0]

\* AllocHeatmap: every cell is set to 0; the memory around the rows is not
\* touched
AllocHeatmap(around) ==
    [fill |-> 0, hits |-> NoHits, slack |-> NoHits, around |-> around]

Cell(h, row, col) ==
    IF <<row, col>> \in DOMAIN h.hits THEN h.hits[<<row, col>>] ELSE h.fill

SetCell(h, row, col, v) ==
    [h EXCEPT !.hits = [c \in (DOMAIN h.hits) \cup {<<row, col>>} |->
                            IF c = <<row, col>> THEN v ELSE h.hits[c]]]

\* the values held by the cells of a heatmap
CellValues(h, imageWidth, imageHeight) ==
    { h.hits[c] : c \in DOMAIN h.hits }
        \cup (IF Cardinality(DOMAIN h.hits) < imageWidth * imageHeight
              THEN {h.fill} ELSE {})

SetMax(S) == CHOOSE x \in S : \A y \in S : y <= x

\* ------------------------------------------------------------------------
\* rowFromReal / colFromImaginary
\* ------------------------------------------------------------------------
\* static_cast<int> of a double: truncation towards zero
TruncDiv(a, b) == IF a >= 0 THEN a \div b ELSE -((-a) \div b)

\* (value - lo) * (length / (hi - lo)), truncated.  The quotient
\* length / (hi - lo) is rounded by the program; for the dyadic values of the
\* model the rounding never moves the product across an integer, so the
\* truncated result is that of the exact product.
ScaleToIndex(value, lo, hi, length) ==
    LET t == DSub(value, lo)
        span == DSub(hi, lo)
    IN  TruncDiv(t.n * span.d * length, t.d * span.n)

rowFromReal(real, minR, maxR, imageHeight) ==
    ScaleToIndex(real, minR, maxR, imageHeight)

colFromImaginary(imag, minI, maxI, imageWidth) ==
    ScaleToIndex(imag, minI, maxI, imageWidth)

\* ------------------------------------------------------------------------
\* GenerateHeatmap: the body of the loop over pointsList
\* ------------------------------------------------------------------------
\* the window test, inclusive on the four bounds
InWindow(point, minimum, maximum) ==
    /\ DLe(point.r, maximum.r)
    /\ DLe(minimum.r, point.r)
    /\ DLe(point.i, maximum.i)
    /\ DLe(minimum.i, point.i)

InGrid(row, col, imageWidth, imageHeight) ==
    /\ 0 <= row /\ row < imageHeight
    /\ 0 <= col /\ col < imageWidth

\* ++o_heatmap[row][col]; if (o_heatmap[row][col] > o_maxHeatmapValue) ...
IncrementCell(h, maxv, row, col) ==
    LET v == Cell(h, row, col) + 1
    IN  [heatmap |-> SetCell(h, row, col, v),
         max |-> IF v > maxv THEN v ELSE maxv,
         crashed |-> FALSE]

\* the word o_heatmap[row][col] of an index outside the arrays
SlackWord(h, row, col) ==
    IF <<row, col>> \in DOMAIN h.slack THEN h.slack[<<row, col>>]
    ELSE h.around.word

SetSlackWord(h, row, col, v) ==
    [h EXCEPT !.slack = [c \in (DOMAIN h.slack) \cup {<<row, col>>} |->
                             IF c = <<row, col>> THEN v ELSE h.slack[c]]]

\* o_heatmap[row] is one of the row pointers AllocHeatmap stored
RowInArray(row, imageHeight) == 0 <= row /\ row < imageHeight

\* whether the word o_heatmap[row][col] of an index outside the arrays can
\* be accessed: with a row inside the array the word lies next to that row,
\* otherwise the row pointer itself is read from outside the array
Accessible(h, row, imageHeight) ==
    IF RowInArray(row, imageHeight) THEN h.around.mapped ELSE h.around.pointed

\* o_heatmap[row][col] with an index outside the arrays is undefined
\* behaviour.  The access faults where the word cannot be accessed;
\* otherwise the word is read, incremented, written back and compared with
\* the maximum, and keeps its value until the next increment.
OutOfGridOutcomes(h, maxv, row, col, imageWidth, imageHeight) ==
    LET v == SlackWord(h, row, col) + 1
    IN  IF ~Accessible(h, row, imageHeight)
        THEN {[heatmap |-> h, max |-> maxv, crashed |-> TRUE]}
        ELSE {[heatmap |-> SetSlackWord(h, row, col, v),
               max |-> IF v > maxv THEN v ELSE maxv,
               crashed |-> FALSE]}

\* one iteration of "for (Complex& point : pointsList)": the outcomes
AccumulateOutcomes(h, maxv, point, minimum, maximum, imageWidth, imageHeight) ==
    IF InWindow(point, minimum, maximum)
    THEN LET row == rowFromReal(point.r, minimum.r, maximum.r, imageHeight)
             col == colFromImaginary(point.i, minimum.i, maximum.i, imageWidth)
         IN  IF InGrid(row, col, imageWidth, imageHeight)
             THEN {IncrementCell(h, maxv, row, col)}
             ELSE OutOfGridOutcomes(h, maxv, row, col, imageWidth, imageHeight)
    ELSE {[heatmap |-> h, max |-> maxv, crashed |-> FALSE]}

\* ------------------------------------------------------------------------
\* colorFromHeatmap
\* ------------------------------------------------------------------------
RECURSIVE Pow2(_)
Pow2(k) == IF k <= 0 THEN 1 ELSE 2 * Pow2(k - 1)

RECURSIVE FloorLog2(_)
FloorLog2(k) == IF k < 2 THEN 0 ELSE 1 + FloorLog2(k \div 2)

\* for a, m > 0: the L with 2^L <= a/m < 2^(L+1)
RECURSIVE RatioLogUp(_, _, _)
RatioLogUp(a, m, L) == IF m * Pow2(L + 1) <= a THEN RatioLogUp(a, m, L + 1) ELSE L

RECURSIVE RatioLogDown(_, _, _)
RatioLogDown(a, m, k) == IF a * Pow2(k) < m THEN RatioLogDown(a, m, k + 1) ELSE k

RatioLog2(a, m) == IF m <= a THEN RatioLogUp(a, m, 0) ELSE -RatioLogDown(a, m, 1)

\* x * 2^e modulo md
RECURSIVE ShiftMod(_, _, _)
ShiftMod(x, e, md) == IF e = 0 THEN x % md ELSE ShiftMod((2 * x) % md, e - 1, md)

\* double scale = static_cast<double>(maxColor) / maxHeatmapValue, for
\* maxColor, maxHeatmapValue > 0.  The quotient is rounded to 53 significant
\* bits, to nearest, ties to even: with e = 52 - L the double is q / 2^e
\* for the integer q nearest to maxColor * 2^e / maxHeatmapValue.  The
\* record holds L and the remainder R = maxColor * 2^e - q * maxHeatmapValue
\* (R > 0: the double is below the quotient, R < 0: above, R = 0: exact).
ScaleDouble(maxColor, maxHeatmapValue) ==
    LET L == RatioLog2(maxColor, maxHeatmapValue)
        x == ShiftMod(maxColor, 52 - L, 2 * maxHeatmapValue)
        qodd == x \div maxHeatmapValue
        r0 == x % maxHeatmapValue
        up == 2 * r0 > maxHeatmapValue \/ (2 * r0 = maxHeatmapValue /\ qodd = 1)
    IN  [L |-> L, R |-> IF up THEN r0 - maxHeatmapValue ELSE r0]

\* return inputValue * scale: the product is rounded to a double and then
\* truncated to int.  With k = floor(inputValue * maxColor / maxHeatmapValue):
\* when the exact quotient is not an integer the product stays strictly
\* between k and k + 1; when it is the integer k and scale was rounded
\* down, the product is k - inputValue * R / (maxHeatmapValue * 2^e), which
\* rounds back to k only if it is within half a unit in the last place of k.
TruncatedProduct(inputValue, maxHeatmapValue, maxColor, scale) ==
    LET k == (inputValue * maxColor) \div maxHeatmapValue
        f == (inputValue * maxColor) % maxHeatmapValue
        j == FloorLog2(k)
        w == IF k = Pow2(j) THEN 4 ELSE 2
    IN  IF f # 0 \/ scale.R <= 0 \/ inputValue = 0 THEN k
        ELSE IF w * inputValue * scale.R <= maxHeatmapValue * Pow2(j - scale.L)
             THEN k ELSE k - 1

\* the slip-free normalisation floor(inputValue * maxColor / maxHeatmapValue)
colorFromHeatmapExact(inputValue, maxHeatmapValue, maxColor) ==
    (inputValue * maxColor) \div maxHeatmapValue

\* colorFromHeatmap for maxHeatmapValue > 0
colorFromHeatmap(inputValue, maxHeatmapValue, maxColor) ==
    IF maxColor = 0 THEN 0
    ELSE TruncatedProduct(inputValue, maxHeatmapValue, maxColor,
                          ScaleDouble(maxColor, maxHeatmapValue))

\* With maxHeatmapValue = 0 scale is +infinity, the product is NaN (or
\* +infinity) and its conversion to int is undefined: builds yield 0,
\* INT_MAX or INT_MIN.
UndefinedInts == {0, 2147483647, -2147483647 - 1}

colorFromHeatmapOutcomes(inputValue, maxHeatmapValue, maxColor) ==
    IF maxHeatmapValue = 0 THEN UndefinedInts
    ELSE {colorFromHeatmap(inputValue, maxHeatmapValue, maxColor)}

\* red[row][col] = colorFromHeatmap(...): the int returned is converted to
\* HeatmapType (unsigned int), a negative x becoming x + 2^32.  Values from
\* 2^31 on are beyond the integers of the checker and are held as their two
\* 16-bit halves: [hi |-> 32768, lo |-> 0] is 32768 * 65536 + 0 = 2147483648.
ToHeatmapType(x) ==
    IF x >= 0 THEN x
    ELSE [hi |-> 65536 + (x \div 65536), lo |-> x % 65536]

\* the three assignments of the scaling loop, over every cell of a heatmap
ScaleCells(h, maxv, maxColor) ==
    [h EXCEPT
       !.fill = ToHeatmapType(colorFromHeatmap(h.fill, maxv, maxColor)),
       !.hits = [c \in DOMAIN h.hits |->
                    ToHeatmapType(colorFromHeatmap(h.hits[c], maxv, maxColor))]]

\* the same loop when colorFromHeatmap returns the undefined conversion g
\* for every cell
UndefinedCells(h, g) ==
    [h EXCEPT !.fill = ToHeatmapType(g),
              !.hits = [c \in DOMAIN h.hits |-> ToHeatmapType(g)]]

\* ------------------------------------------------------------------------
\* State
\* ------------------------------------------------------------------------
VARIABLES
    pc,               \* where main is
    cfg,              \* the arguments main hands to GenerateHeatmap
    channel,          \* the GenerateHeatmap call in progress
    sampleIdx,        \* its loop counter
    pointsList,       \* the points of the current sample still to visit
    heatmap,          \* the heatmaps red, green and blue
    maxHeatmapValue,
    scaled,           \* the scaling loop has run
    imgOut,           \* what was written to out.ppm
    exitCode,         \* << >> until main returns
    taken,            \* samples drawn so far by each call
    tpc, tc, tN, tn, tret,      \* a call of buddhabrotPoints on its own
    npc, nValue, nMax, nOut,    \* a call of colorFromHeatmap on its own
    fed, fedB, runA, runB, restA, restB   \* two accumulations of the same points

mainVars == << pc, cfg, channel, sampleIdx, pointsList, heatmap,
               maxHeatmapValue, scaled, imgOut, exitCode, taken >>
trajVars == << tpc, tc, tN, tn, tret >>
normVars == << npc, nValue, nMax, nOut >>
permVars == << fed, fedB, runA, runB, restA, restB >>
vars == << mainVars, trajVars, normVars, permVars >>

\* ------------------------------------------------------------------------
\* main
\* ------------------------------------------------------------------------
\* the candidates the two uniform distributions may return
Candidates ==
    { Complex(Dbl(0, 1), Dbl(0, 1)),
      Complex(Dbl(1, 2), Dbl(1, 1)),
      Complex(Dbl(1, 2), Dbl(1, 2)),
      Complex(Dbl(5, 8), Dbl(1, 8)),
      Complex(Dbl(-1, 1), Dbl(-1, 1)) }

NextChannel(ch) == IF ch = "red" THEN "green" ELSE "blue"

MainConfig ==
    [iters |-> [red |-> RED_ITERS, green |-> GREEN_ITERS, blue |-> BLUE_ITERS],
     nSamples |-> SAMPLE_COUNT]

MainStart(config) ==
    /\ pc = "start"
    /\ cfg = config
    /\ channel = "red"
    /\ sampleIdx = 0
    /\ pointsList = << >>
    /\ heatmap = [red |-> AllocHeatmap(NoSurroundings), green |-> AllocHeatmap(NoSurroundings), blue |-> AllocHeatmap(NoSurroundings)]
    /\ maxHeatmapValue = 0
    /\ scaled = FALSE
    /\ imgOut = << >>
    /\ exitCode = << >>
    /\ taken = [red |-> 0, green |-> 0, blue |-> 0]

MainIdle ==
    /\ pc = "idle"
    /\ cfg = MainConfig
    /\ channel = "red"
    /\ sampleIdx = 0
    /\ pointsList = << >>
    /\ heatmap = [red |-> AllocHeatmap(NoSurroundings), green |-> AllocHeatmap(NoSurroundings), blue |-> AllocHeatmap(NoSurroundings)]
    /\ maxHeatmapValue = 0
    /\ scaled = FALSE
    /\ imgOut = << >>
    /\ exitCode = << >>
    /\ taken = [red |-> 0, green |-> 0, blue |-> 0]

\* ofstream imgOut("out.ppm") failed: main returns EXIT_FAILURE
OpenFails ==
    /\ pc = "start"
    /\ pc' = "done"
    /\ exitCode' = << EXIT_FAILURE >>
    /\ UNCHANGED << cfg, channel, sampleIdx, pointsList, heatmap,
                    maxHeatmapValue, scaled, imgOut, taken >>
    /\ UNCHANGED << trajVars, normVars, permVars >>

\* the file is open, the heatmaps are allocated, the red call begins
OpenSucceeds ==
    /\ pc = "start"
    /\ pc' = "gen"
    /\ maxHeatmapValue' = 0
    /\ \E around \in Surroundings :
          heatmap' = [red |-> AllocHeatmap(around), green |-> AllocHeatmap(around),
                      blue |-> AllocHeatmap(around)]
    /\ channel' = "red"
    /\ sampleIdx' = 0
    /\ UNCHANGED << cfg, pointsList, scaled, imgOut, exitCode, taken >>
    /\ UNCHANGED << trajVars, normVars, permVars >>

\* a slip of the sample loop test: the last sample of a call is not taken
SampleLoopCondShort(idx, nSamples) == idx < nSamples - 1

\* for (...; sampleIdx < nSamples; ...)
SampleLoopCond(idx, nSamples) == idx < nSamples

\* a sample is drawn and its points are computed
DrawSample ==
    /\ pc = "gen"
    /\ SampleLoopCond(sampleIdx, cfg.nSamples)
    /\ \E c \in Candidates :
          IF buddhabrotThrows(cfg.iters[channel])
          THEN /\ pc' = "aborted"
               /\ pointsList' = pointsList
          ELSE /\ pc' = "points"
               /\ pointsList' = buddhabrotPoints(c, cfg.iters[channel])
    /\ taken' = [taken EXCEPT ![channel] = @ + 1]
    /\ UNCHANGED << cfg, channel, sampleIdx, heatmap, maxHeatmapValue,
                    scaled, imgOut, exitCode >>
    /\ UNCHANGED << trajVars, normVars, permVars >>

\* one point of pointsList is visited
Accumulate ==
    /\ pc = "points"
    /\ pointsList # << >>
    /\ \E o \in AccumulateOutcomes(heatmap[channel], maxHeatmapValue,
                                   Head(pointsList), MINIMUM, MAXIMUM,
                                   IMAGE_WIDTH, IMAGE_HEIGHT) :
          /\ heatmap' = [heatmap EXCEPT ![channel] = o.heatmap]
          /\ maxHeatmapValue' = o.max
          /\ pc' = IF o.crashed THEN "crashed" ELSE "points"
    /\ pointsList' = Tail(pointsList)
    /\ UNCHANGED << cfg, channel, sampleIdx, scaled, imgOut, exitCode, taken >>
    /\ UNCHANGED << trajVars, normVars, permVars >>

\* pointsList is exhausted: ++sampleIdx
EndSample ==
    /\ pc = "points"
    /\ pointsList = << >>
    /\ sampleIdx' = sampleIdx + 1
    /\ pc' = "gen"
    /\ UNCHANGED << cfg, channel, pointsList, heatmap, maxHeatmapValue,
                    scaled, imgOut, exitCode, taken >>
    /\ UNCHANGED << trajVars, normVars, permVars >>

\* GenerateHeatmap returns; main makes the next call, or goes on to scale
EndChannel ==
    /\ pc = "gen"
    /\ ~SampleLoopCond(sampleIdx, cfg.nSamples)
    /\ IF channel = "blue"
       THEN /\ pc' = "scale"
            /\ UNCHANGED << channel, sampleIdx >>
       ELSE /\ pc' = "gen"
            /\ channel' = NextChannel(channel)
            /\ sampleIdx' = 0
    /\ UNCHANGED << cfg, pointsList, heatmap, maxHeatmapValue, scaled,
                    imgOut, exitCode, taken >>
    /\ UNCHANGED << trajVars, normVars, permVars >>

\* "Scale the heatmap down": colorFromHeatmap on every cell of the three
ScaleHeatmap ==
    /\ pc = "scale"
    /\ IF maxHeatmapValue = 0
       THEN \E g \in UndefinedInts :
               heatmap' = [ch \in DOMAIN heatmap |-> UndefinedCells(heatmap[ch], g)]
       ELSE heatmap' = [ch \in DOMAIN heatmap |->
                           ScaleCells(heatmap[ch], maxHeatmapValue, MAX_COLOR)]
    /\ scaled' = TRUE
    /\ pc' = "write"
    /\ UNCHANGED << cfg, channel, sampleIdx, pointsList, maxHeatmapValue,
                    imgOut, exitCode, taken >>
    /\ UNCHANGED << trajVars, normVars, permVars >>

\* the cells of a heatmap, as the loop over rows and columns writes them
Pixels(h) == [fill |-> h.fill, hits |-> h.hits]

\* the PPM header and the cells are written, the heatmaps are freed and
\* main returns EXIT_SUCCESS.  FreeHeatmap releases with "delete" what
\* "new[]" allocated, which is undefined: the release may also fault.
WriteImage ==
    /\ pc = "write"
    /\ imgOut' = << [magic |-> "P3", width |-> IMAGE_WIDTH, height |-> IMAGE_HEIGHT,
                     maxval |-> MAX_COLOR, red |-> Pixels(heatmap.red),
                     green |-> Pixels(heatmap.green),
                     blue |-> Pixels(heatmap.blue)] >>
    /\ \/ pc' = "done" /\ exitCode' = << EXIT_SUCCESS >>
       \/ pc' = "crashed" /\ exitCode' = exitCode
    /\ UNCHANGED << cfg, channel, sampleIdx, pointsList, heatmap,
                    maxHeatmapValue, scaled, taken >>
    /\ UNCHANGED << trajVars, normVars, permVars >>

\* ------------------------------------------------------------------------
\* buddhabrotPoints on its own: the inputs are drawn, the call is applied
\* ------------------------------------------------------------------------
TrajInputs ==
    { Complex(Dbl(a, 2), Dbl(b, 2)) : a \in (-HalfRange)..HalfRange,
                                      b \in (-HalfRange)..HalfRange }

TrajStart ==
    /\ tpc = "call"
    /\ tc \in TrajInputs
    /\ tN \in 1..MaxIter
    /\ tn = 0
    /\ tret = << >>

TrajIdle ==
    /\ tpc = "idle"
    /\ tc = ComplexZero
    /\ tN = 0
    /\ tn = 0
    /\ tret = << >>

TrajApply ==
    /\ tpc = "call"
    /\ tn' = buddhabrotIterations(tc, tN)
    /\ tret' = buddhabrotPoints(tc, tN)
    /\ tpc' = "returned"
    /\ UNCHANGED << tc, tN >>
    /\ UNCHANGED << mainVars, normVars, permVars >>

\* ------------------------------------------------------------------------
\* colorFromHeatmap on its own
\* ------------------------------------------------------------------------
NormStart ==
    /\ npc = "call"
    /\ nMax \in 0..MaxHeat
    /\ nValue \in 0..nMax
    /\ nOut = 0

NormIdle ==
    /\ npc = "idle"
    /\ nMax = 0
    /\ nValue = 0
    /\ nOut = 0

NormApply ==
    /\ npc = "call"
    /\ nOut' \in colorFromHeatmapOutcomes(nValue, nMax, MAX_COLOR)
    /\ npc' = "returned"
    /\ UNCHANGED << nValue, nMax >>
    /\ UNCHANGED << mainVars, trajVars, permVars >>

\* ------------------------------------------------------------------------
\* the accumulation step on its own: the same points in two orders
\* ------------------------------------------------------------------------
\* points a trajectory can hold: one inside the grid, one outside the
\* window, one on the upper edge of the window's imaginary axis, one on
\* the upper edge of its real axis
FedPoints ==
    { Complex(Dbl(1, 2), Dbl(1, 1)),
      Complex(Dbl(-1, 1), Dbl(3, 1)),
      Complex(Dbl(-1, 4), Dbl(2, 1)),
      Complex(Dbl(1, 1), Dbl(0, 1)) }

SeqsUpTo(S, k) == UNION { [1..m -> S] : m \in 0..k }

Occurrences(s, x) == Cardinality({ i \in 1..Len(s) : s[i] = x })

IsPermutation(s, t) ==
    /\ Len(s) = Len(t)
    /\ \A x \in FedPoints : Occurrences(s, x) = Occurrences(t, x)

\* a heatmap just allocated and a maximum of 0
FreshRun(around) == [heatmap |-> AllocHeatmap(around), max |-> 0, crashed |-> FALSE]

PermStart ==
    /\ fed \in SeqsUpTo(FedPoints, MaxFed)
    /\ fedB \in { t \in SeqsUpTo(FedPoints, MaxFed) : IsPermutation(fed, t) }
    /\ restA = fed
    /\ restB = fedB
    /\ \E aroundA \in Surroundings : runA = FreshRun(aroundA)
    /\ \E aroundB \in Surroundings : runB = FreshRun(aroundB)

PermIdle ==
    /\ fed = << >>
    /\ fedB = << >>
    /\ restA = << >>
    /\ restB = << >>
    /\ runA = FreshRun(NoSurroundings)
    /\ runB = FreshRun(NoSurroundings)

FeedA ==
    /\ restA # << >>
    /\ ~runA.crashed
    /\ runA' \in AccumulateOutcomes(runA.heatmap, runA.max, Head(restA),
                                    MINIMUM, MAXIMUM, IMAGE_WIDTH, IMAGE_HEIGHT)
    /\ restA' = Tail(restA)
    /\ UNCHANGED << fed, fedB, runB, restB >>
    /\ UNCHANGED << mainVars, trajVars, normVars >>

FeedB ==
    /\ restB # << >>
    /\ ~runB.crashed
    /\ runB' \in AccumulateOutcomes(runB.heatmap, runB.max, Head(restB),
                                    MINIMUM, MAXIMUM, IMAGE_WIDTH, IMAGE_HEIGHT)
    /\ restB' = Tail(restB)
    /\ UNCHANGED << fed, fedB, runA, restA >>
    /\ UNCHANGED << mainVars, trajVars, normVars >>

\* ------------------------------------------------------------------------
\* Specifications
\* ------------------------------------------------------------------------
Init == MainStart(MainConfig) /\ TrajIdle /\ NormIdle /\ PermIdle

Next ==
    \/ OpenFails
    \/ OpenSucceeds
    \/ DrawSample
    \/ Accumulate
    \/ EndSample
    \/ EndChannel
    \/ ScaleHeatmap
    \/ WriteImage

Spec == Init /\ [][Next]_vars

\* GenerateHeatmap with arguments main does not use
ConfigInputs ==
    { [iters |-> [red |-> i, green |-> i, blue |-> i], nSamples |-> s] :
         i \in (-1)..MaxConfigIters, s \in (-1)..MaxConfigSamples }

InitConfig ==
    (\E config \in ConfigInputs : MainStart(config))
        /\ TrajIdle /\ NormIdle /\ PermIdle

SpecConfig == InitConfig /\ [][Next]_vars

InitTraj == MainIdle /\ TrajStart /\ NormIdle /\ PermIdle

NextTraj == TrajApply

SpecTraj == InitTraj /\ [][NextTraj]_vars

InitNorm == MainIdle /\ TrajIdle /\ NormStart /\ PermIdle

NextNorm == NormApply

SpecNorm == InitNorm /\ [][NextNorm]_vars

InitPerm == MainIdle /\ TrajIdle /\ NormIdle /\ PermStart

NextPerm == FeedA \/ FeedB

SpecPerm == InitPerm /\ [][NextPerm]_vars

\* ------------------------------------------------------------------------
\* Properties
\* ------------------------------------------------------------------------
AllCellValues ==
    UNION { CellValues(heatmap[ch], IMAGE_WIDTH, IMAGE_HEIGHT) : ch \in DOMAIN heatmap }

\* C1: while the three calls of GenerateHeatmap run, after every completed
\* accumulation step maxHeatmapValue equals the largest value held by any
\* cell of the red, green and blue heatmaps (0 while all are zero).
C1_GlobalMaximum ==
    pc \in {"gen", "points", "scale"} => maxHeatmapValue = SetMax(AllCellValues)

\* the k-th iterate z_k of z <- z*z + c from z_0 = 0
RECURSIVE Iterate(_, _)
Iterate(c, k) ==
    IF k = 0 THEN ComplexZero
    ELSE LET zp == Iterate(c, k - 1) IN CAdd(CMul(zp, zp), c)

\* the least k in from..upto whose iterate has squared magnitude above the
\* threshold, 0 if there is none (z is the iterate before from)
RECURSIVE FirstEscape(_, _, _, _)
FirstEscape(c, z, from, upto) ==
    IF from > upto THEN 0
    ELSE LET zn == CAdd(CMul(z, z), c)
         IN  IF DGt(sqmagnitude(zn), EscapeThreshold) THEN from
             ELSE FirstEscape(c, zn, from + 1, upto)

Visited(c, k) == [j \in 1..k |-> Iterate(c, j)]

\* C2: buddhabrotPoints(c, N) returns the visited sequence z1..zk, the
\* escaping iterate included, if and only if some iterate zk with k <= N has
\* squared magnitude above 2.0, and the empty sequence exactly when the N
\* iterations passed without such an iterate.
C2_ReturnsIffEscapes ==
    tpc = "returned" =>
        LET k == FirstEscape(tc, ComplexZero, 1, tN)
        IN  IF k > 0 THEN tret = Visited(tc, k) ELSE tret = << >>

\* C3: for every c with |c| > 2 and every positive N, N = 1 included,
\* buddhabrotPoints(c, N) returns a non-empty sequence whose first element
\* has squared magnitude above 2.0.
C3_ImmediateEscape ==
    (tpc = "returned" /\ DGt(sqmagnitude(tc), Dbl(4, 1))) =>
        /\ tret # << >>
        /\ DGt(sqmagnitude(Head(tret)), EscapeThreshold)

\* C4: a non-empty sequence returned by buddhabrotPoints(c, N) is shorter
\* than N, and the loop performs at most N iterations.
C4_LengthBelowBound ==
    tpc = "returned" =>
        /\ tn <= tN
        /\ (tret # << >> => Len(tret) < tN)

\* C4, its case: a call returned a sequence of N - 1 points, N >= 3
C4_Witness ==
    /\ tpc = "returned"
    /\ tN >= 3
    /\ Len(tret) = tN - 1
    /\ tn = tN - 1

\* C5: from an all-zero heatmap and a maximum of 0, the same points fed to
\* the accumulation step in two orders leave the same cells and the same
\* maximum, whatever the points are.
C5_OrderIndependent ==
    ((restA = << >> \/ runA.crashed) /\ (restB = << >> \/ runB.crashed)) =>
        /\ Pixels(runA.heatmap) = Pixels(runB.heatmap)
        /\ runA.max = runB.max

\* C6: for 0 <= v <= maxHeatmapValue, maxHeatmapValue > 0,
\* colorFromHeatmap(v, maxHeatmapValue, 255) is
\* floor(v * 255 / maxHeatmapValue), lies in 0..255 and is 255 when
\* v = maxHeatmapValue.
C6_NormalizationBound ==
    (npc = "returned" /\ nMax > 0) =>
        /\ nOut = colorFromHeatmapExact(nValue, nMax, MAX_COLOR)
        /\ 0 <= nOut /\ nOut <= MAX_COLOR
        /\ (nValue = nMax => nOut = MAX_COLOR)

\* C7: when maxHeatmapValue is still 0 after the three calls of
\* GenerateHeatmap, the run ends in an error: the scaling loop does not run,
\* nothing is written to the image and main does not return EXIT_SUCCESS.
C7_DegenerateSurfaced ==
    ((pc = "scale" \/ scaled) /\ maxHeatmapValue = 0) =>
        /\ ~scaled
        /\ imgOut = << >>
        /\ exitCode # << EXIT_SUCCESS >>

InvalidConfig(config) ==
    \/ config.nSamples <= 0
    \/ \E ch \in DOMAIN config.iters : config.iters[ch] <= 0

\* C8: with a non-positive iteration bound or sample count no candidate is
\* sampled, no cell is incremented, the maximum stays as it was, and the
\* run reports an error (it neither scales nor writes nor returns
\* EXIT_SUCCESS).
C8_ConfigRejected ==
    InvalidConfig(cfg) =>
        /\ taken = [red |-> 0, green |-> 0, blue |-> 0]
        /\ maxHeatmapValue = 0
        /\ ~scaled
        /\ imgOut = << >>
        /\ exitCode # << EXIT_SUCCESS >>

C9_Order ==
    /\ channel # "red" => taken.red = cfg.nSamples
    /\ channel = "blue" => taken.green = cfg.nSamples
    /\ taken.green > 0 => taken.red = cfg.nSamples
    /\ taken.blue > 0 => taken.green = cfg.nSamples
    /\ (pc = "scale" \/ scaled) =>
          /\ taken.blue = cfg.nSamples
          /\ pointsList = << >>

\* after the allocation a heatmap changes only while its own call visits
\* points, and once more when main scales
C9_Step ==
    /\ (pc \notin {"start", "scale"} /\ heatmap' # heatmap) =>
          /\ pc = "points"
          /\ ~scaled
          /\ \A ch \in DOMAIN heatmap : ch # channel => heatmap'[ch] = heatmap[ch]
    /\ (pc = "scale" /\ pc' # "scale" /\ maxHeatmapValue > 0) =>
          /\ maxHeatmapValue' = maxHeatmapValue
          /\ \A ch \in DOMAIN heatmap :
                heatmap'[ch] = ScaleCells(heatmap[ch], maxHeatmapValue, MAX_COLOR)
    /\ scaled => (heatmap' = heatmap /\ maxHeatmapValue' = maxHeatmapValue)

\* C9: the red call takes all its samples before the green call takes its
\* first, and green before blue; no cell is rescaled before every sample of
\* the three calls is accumulated, and every cell is rescaled with the one
\* final maxHeatmapValue.
C9_PhaseOrdering == [](C9_Order) /\ [][C9_Step]_vars

\* C9, its case: a run went through the three calls, scaled and wrote
C9_Witness ==
    /\ pc = "done"
    /\ scaled
    /\ imgOut # << >>
    /\ maxHeatmapValue >= 2
    /\ taken = [red |-> SAMPLE_COUNT, green |-> SAMPLE_COUNT, blue |-> SAMPLE_COUNT]

\* C10: every point that passes the window test of GenerateHeatmap gets
\* indices with 0 <= row < imageHeight and 0 <= col < imageWidth.
C10_IndexInGrid ==
    (pc = "points" /\ pointsList # << >>
        /\ InWindow(Head(pointsList), MINIMUM, MAXIMUM)) =>
        InGrid(rowFromReal(Head(pointsList).r, MINIMUM.r, MAXIMUM.r, IMAGE_HEIGHT),
               colFromImaginary(Head(pointsList).i, MINIMUM.i, MAXIMUM.i, IMAGE_WIDTH),
               IMAGE_WIDTH, IMAGE_HEIGHT)

====
